---- MODULE Spec2Model ----
(***************************************************************************)
(* A model of myshoes' start-up and GitHub-App identity code:              *)
(*   cmd/server main (newShoes, Run)          src/unnamed/part_000         *)
(*   pkg/gh (installation discovery, tokens)  src/pkg/gh/jwt.go            *)
(*   pkg/config (plugin loading)              src/pkg/config/init.go       *)
(* Strings the code inspects character by character (scopes, logins,       *)
(* repository full names) are sequences of one-character strings.          *)
(***************************************************************************)
EXTENDS Integers, Sequences, FiniteSets, TLC

VARIABLES
    \* ---- pkg/gh: IsInstalledGitHubApp / GenerateRunnerRegistrationToken
    inputScope,      \* the scope argument
    installations,   \* what GHlistInstallations returns on success
    op,              \* which function of pkg/gh is being executed
    ghpc,            \* its position: "start", "loop", "done"
    idx,             \* index of the range loop of IsInstalledGitHubApp
    ret,             \* [id, err] returned by IsInstalledGitHubApp
    repoLog,         \* per installation index: outcome of the repository check
    lr,              \* last answer of GHlistAppsInstalledRepo
    calls,           \* registration-token endpoint calls made
    tokRet,          \* [token, err] returned by GenerateRunnerRegistrationToken
    \* ---- pkg/gh: listInstallations
    chain,           \* the provider's pages
    lpc,             \* "request", "done"
    optsPage,        \* opts.Page
    acc,             \* the installations slice being appended to
    requests,        \* page numbers requested so far
    lret,            \* [installations, err] returned
    \* ---- cmd/server: Run, per process instance
    pc,              \* position of each instance in main/Run
    lock,            \* the instances holding the datastore advisory lock
    isLockedRes,     \* last answer of ds.IsLocked to each instance
    task,            \* state of each errgroup task of each instance
    egErr,           \* first error recorded by each instance's errgroup
    ctxCancelled,    \* whether the errgroup context is cancelled
    runRet,          \* what Run returned
    exitCode,        \* process exit status (-1: still alive)
    retried,         \* the instance has slept in the lock loop at least once
    \* ---- cmd/server: the enqueue-notify channel of one instance
    notifyEnqueueCh, \* [cap, len] of the buffered channel
    starter,         \* "waiting" or "ticking"
    wokenBy,         \* what woke the current/last tick
    burst,           \* posts made since the current tick began
    posts,           \* posts made in total
    dropped,         \* posts dropped in total
    notifyTicks,     \* ticks woken by the channel in total
    \* ---- pkg/config: LoadPluginPath
    bootpc,          \* position in LoadPluginPath
    envPluginPath,   \* os.Getenv(EnvShoesPluginPath), as a parsed description
    outputPath,      \* Config.ShoesPluginOutputPath
    localFile,       \* what os.Stat/os.ReadFile find at the configured path
    fp,              \* the path handed from fetch to checkBinary
    fileAt,          \* content and mode of the file at fp
    downloaded,      \* the path the plugin was downloaded to, if any
    checked,         \* the path checkBinary validated, if any
    pluginPath,      \* Config.ShoesPluginPath after Load
    panicMsg         \* message of log.Panicf, if start-up aborted

ghVars == <<inputScope, installations, op, ghpc, idx, ret, repoLog, lr, calls, tokRet>>
listVars == <<chain, lpc, optsPage, acc, requests, lret>>
runVars == <<pc, lock, isLockedRes, task, egErr, ctxCancelled, runRet, exitCode, retried>>
notifyVars == <<notifyEnqueueCh, starter, wokenBy, burst, posts, dropped, notifyTicks>>
pluginVars == <<bootpc, envPluginPath, outputPath, localFile, fp, fileAt, downloaded,
                checked, pluginPath, panicMsg>>
vars == <<ghVars, listVars, runVars, notifyVars, pluginVars>>

Nil == "nil"

\* ------------------------------------------------------------------------
\* Strings
\* ------------------------------------------------------------------------

\* unicode.ToLower on the letters used here
LowerChar(c) == IF c = "O" THEN "o" ELSE IF c = "W" THEN "w" ELSE c

ToLower(s) == [i \in DOMAIN s |-> LowerChar(s[i])]

\* strings.EqualFold
EqualFold(a, b) == ToLower(a) = ToLower(b)

\* strings.HasPrefix
HasPrefix(s, prefix) ==
    /\ Len(prefix) <= Len(s)
    /\ SubSeq(s, 1, Len(prefix)) = prefix

\* Sequences over S of length at most n
SeqUpTo(S, n) == UNION {[1..k -> S] : k \in 0..n}

\* ------------------------------------------------------------------------
\* pkg/gh: scopes
\* ------------------------------------------------------------------------

MaxInstallations == 2
MaxRepos == 2

\* "o", "oc", "o/w", "oc/w", "O/w", "o/w/x"
Scopes ==
    { <<"o">>, <<"o", "c">>, <<"o", "/", "w">>, <<"o", "c", "/", "w">>,
      <<"O", "/", "w">>, <<"o", "/", "w", "/", "x">> }

\* account logins of installations: "o", "oc", "O"
Logins == { <<"o">>, <<"o", "c">>, <<"O">> }

\* full names of repositories: "o/w", "o/W", "o/x"
RepoNames == { <<"o", "/", "w">>, <<"o", "/", "W">>, <<"o", "/", "x">> }

CountSlash(s) == Cardinality({i \in DOMAIN s : s[i] = "/"})

\* gh.DetectScope: `owner` is an Organization, `owner/repo` a Repository
DetectScope(scope) ==
    IF CountSlash(scope) = 0 THEN "Organization"
    ELSE IF CountSlash(scope) = 1 THEN "Repository"
    ELSE "Unknown"

FirstSlash(s) == CHOOSE i \in DOMAIN s : s[i] = "/" /\ \A j \in 1..(i - 1) : s[j] # "/"

\* gh.DivideScope: owner and repo of a scope, split at the first '/'
DivideScope(scope) ==
    IF DetectScope(scope) = "Organization" THEN <<scope, <<>>>>
    ELSE IF DetectScope(scope) = "Repository"
         THEN <<SubSeq(scope, 1, FirstSlash(scope) - 1),
                SubSeq(scope, FirstSlash(scope) + 1, Len(scope))>>
    ELSE <<<<>>, <<>>>>

\* ------------------------------------------------------------------------
\* pkg/gh: IsInstalledGitHubApp
\* ------------------------------------------------------------------------

\* github.Installation, the fields the code reads. SuspendedAt is Nil or a
\* timestamp; ids are distinct, as the provider assigns them.
InstallationAttrs ==
    [SuspendedAt : {Nil, "2021-01-01"}, Login : Logins, RepositorySelection : {"all", "selected"}]

InstallationLists ==
    UNION { { [k \in 1..n |-> [ID |-> 100 + k,
                               SuspendedAt |-> f[k].SuspendedAt,
                               Account |-> [Login |-> f[k].Login],
                               RepositorySelection |-> f[k].RepositorySelection]]
              : f \in [1..n -> InstallationAttrs] }
            : n \in 0..MaxInstallations }

\* What GHlistAppsInstalledRepo can answer: an error, or github.ListRepositories
\* with the total count and the first page of repositories.
ListReposResponses ==
    { [err |-> TRUE, TotalCount |-> 0, Repositories |-> <<>>] }
    \cup { [err |-> FALSE, TotalCount |-> n, Repositories |-> r]
             : <<r, n>> \in { x \in SeqUpTo(RepoNames, MaxRepos) \X (0..(MaxRepos + 1)) :
                                IF x[1] = <<>> THEN x[2] = 0
                                ELSE x[2] \in {Len(x[1]), Len(x[1]) + 1} } }

NoResponse == [err |-> FALSE, TotalCount |-> 0, Repositories |-> <<>>]

\* A bug isInstalledGitHubAppSelected could have: full names compared with
\* ==, not with strings.EqualFold.
isInstalledGitHubAppSelectedMut(resp, scope) ==
    IF resp.err THEN "failed to get list of installed repositories"
    ELSE IF resp.TotalCount <= 0 THEN "installed repository is not found"
    ELSE IF DetectScope(scope) = "Organization" THEN Nil
    ELSE IF DetectScope(scope) # "Repository" THEN "scope is unknown"
    ELSE IF \E k \in DOMAIN resp.Repositories : resp.Repositories[k] = scope
         THEN Nil
    ELSE "not found"

\* isInstalledGitHubAppSelected: Nil, or the error it returns
isInstalledGitHubAppSelected(resp, scope) ==
    IF resp.err THEN "failed to get list of installed repositories"
    ELSE IF resp.TotalCount <= 0 THEN "installed repository is not found"
    ELSE IF DetectScope(scope) = "Organization" THEN Nil
    ELSE IF DetectScope(scope) # "Repository" THEN "scope is unknown"
    ELSE IF \E k \in DOMAIN resp.Repositories : EqualFold(resp.Repositories[k], scope)
         THEN Nil
    ELSE "not found"

\* A bug Suspended could have: the suspension is not looked at.
SuspendedMut(i) == FALSE

\* i.SuspendedAt != nil
Suspended(i) == i.SuspendedAt # Nil

\* A bug LoginMatches could have: the prefix is compared ignoring case.
LoginMatchesMut(scope, i) == HasPrefix(ToLower(scope), ToLower(i.Account.Login))

\* strings.HasPrefix(inputScope, *i.Account.Login)
LoginMatches(scope, i) == HasPrefix(scope, i.Account.Login)

\* strings.EqualFold(*i.RepositorySelection, name); the provider sends the
\* selection in lower case
SelectionIs(i, name) == i.RepositorySelection = name

InLoop ==
    /\ op = "IsInstalledGitHubApp"
    /\ ghpc = "loop"
    /\ idx <= Len(installations)

\* The client is created and the installations are listed; either may fail.
IsInstalledGitHubAppCall ==
    /\ op = "none"
    /\ ghpc = "start"
    /\ op' = "IsInstalledGitHubApp"
    /\ idx' = 1
    /\ \E outcome \in {"ok", "failed to create client", "failed to get list of installations"} :
         IF outcome = "ok"
         THEN ghpc' = "loop" /\ ret' = ret
         ELSE ghpc' = "done" /\ ret' = [id |-> -1, err |-> outcome]
    /\ UNCHANGED <<inputScope, installations, repoLog, lr, calls, tokRet>>
    /\ UNCHANGED <<listVars, runVars, notifyVars, pluginVars>>

\* continue: a suspended installation, or a login that is no prefix
IterSkip ==
    /\ InLoop
    /\ Suspended(installations[idx]) \/ ~LoginMatches(inputScope, installations[idx])
    /\ idx' = idx + 1
    /\ UNCHANGED <<inputScope, installations, op, ghpc, ret, repoLog, lr, calls, tokRet>>
    /\ UNCHANGED <<listVars, runVars, notifyVars, pluginVars>>

\* case "all": found
IterAll ==
    /\ InLoop
    /\ ~Suspended(installations[idx])
    /\ LoginMatches(inputScope, installations[idx])
    /\ SelectionIs(installations[idx], "all")
    /\ ghpc' = "done"
    /\ ret' = [id |-> installations[idx].ID, err |-> Nil]
    /\ UNCHANGED <<inputScope, installations, op, idx, repoLog, lr, calls, tokRet>>
    /\ UNCHANGED <<listVars, runVars, notifyVars, pluginVars>>

\* case "selected": ask for the installation's repositories and check them
IterSelected ==
    /\ InLoop
    /\ ~Suspended(installations[idx])
    /\ LoginMatches(inputScope, installations[idx])
    /\ ~SelectionIs(installations[idx], "all")
    /\ SelectionIs(installations[idx], "selected")
    /\ \E resp \in ListReposResponses :
         LET err == isInstalledGitHubAppSelected(resp, inputScope) IN
         /\ lr' = [inst |-> idx, resp |-> resp, err |-> err]
         /\ repoLog' = [repoLog EXCEPT ![idx] = IF err = Nil THEN "ok" ELSE "fail"]
         /\ IF err = Nil
            THEN /\ ghpc' = "done"
                 /\ ret' = [id |-> installations[idx].ID, err |-> Nil]
                 /\ idx' = idx
            ELSE /\ idx' = idx + 1
                 /\ UNCHANGED <<ghpc, ret>>
    /\ UNCHANGED <<inputScope, installations, op, calls, tokRet>>
    /\ UNCHANGED <<listVars, runVars, notifyVars, pluginVars>>

\* the loop ran out: not installed
IterEnd ==
    /\ op = "IsInstalledGitHubApp"
    /\ ghpc = "loop"
    /\ idx > Len(installations)
    /\ ghpc' = "done"
    /\ ret' = [id |-> -1, err |-> "is not installed configured GitHub Apps"]
    /\ UNCHANGED <<inputScope, installations, op, idx, repoLog, lr, calls, tokRet>>
    /\ UNCHANGED <<listVars, runVars, notifyVars, pluginVars>>

\* ------------------------------------------------------------------------
\* pkg/gh: GenerateRunnerRegistrationToken
\* ------------------------------------------------------------------------

\* A bug RegistrationCalls could have: the organization endpoint is called
\* for a repository scope too.
RegistrationCallsMut(scope) ==
    IF DetectScope(scope) \in {"Organization", "Repository"}
    THEN <<[endpoint |-> "CreateOrganizationRegistrationToken", args |-> <<scope>>]>>
    ELSE <<>>

\* The switch on DetectScope(scope): the endpoint call it makes, if any.
RegistrationCalls(scope) ==
    IF DetectScope(scope) = "Organization"
    THEN <<[endpoint |-> "CreateOrganizationRegistrationToken", args |-> <<scope>>]>>
    ELSE IF DetectScope(scope) = "Repository"
    THEN <<[endpoint |-> "CreateRegistrationToken",
            args |-> <<DivideScope(scope)[1], DivideScope(scope)[2]>>]>>
    ELSE <<>>

GenerateRunnerRegistrationToken ==
    /\ op = "none"
    /\ ghpc = "start"
    /\ op' = "GenerateRunnerRegistrationToken"
    /\ ghpc' = "done"
    /\ \E clientOK \in BOOLEAN, apiOK \in BOOLEAN :
         LET made == IF clientOK THEN RegistrationCalls(inputScope) ELSE <<>> IN
         /\ calls' = made
         /\ tokRet' =
              IF ~clientOK THEN [token |-> "", err |-> "failed to create NewClientInstallation"]
              ELSE IF made = <<>> THEN [token |-> "", err |-> "failed to detect scope"]
              ELSE IF ~apiOK THEN [token |-> "", err |-> "failed to generate registration token"]
              ELSE [token |-> "registration-token", err |-> Nil]
    /\ UNCHANGED <<inputScope, installations, idx, ret, repoLog, lr>>
    /\ UNCHANGED <<listVars, runVars, notifyVars, pluginVars>>

InitGh ==
    /\ inputScope \in Scopes
    /\ installations \in InstallationLists
    /\ op = "none"
    /\ ghpc = "start"
    /\ idx = 0
    /\ ret = [id |-> 0, err |-> Nil]
    /\ repoLog = [k \in 1..Len(installations) |-> "not asked"]
    /\ lr = [inst |-> 0, resp |-> NoResponse, err |-> Nil]
    /\ calls = <<>>
    /\ tokRet = [token |-> "", err |-> Nil]

IdleGh ==
    /\ inputScope = <<>>
    /\ installations = <<>>
    /\ op = "none"
    /\ ghpc = "idle"
    /\ idx = 0
    /\ ret = [id |-> 0, err |-> Nil]
    /\ repoLog = <<>>
    /\ lr = [inst |-> 0, resp |-> NoResponse, err |-> Nil]
    /\ calls = <<>>
    /\ tokRet = [token |-> "", err |-> Nil]

NextGh ==
    \/ IsInstalledGitHubAppCall
    \/ IterSkip
    \/ IterAll
    \/ IterSelected
    \/ IterEnd
    \/ GenerateRunnerRegistrationToken

\* ------------------------------------------------------------------------
\* pkg/gh: listInstallations
\* ------------------------------------------------------------------------

PerPage == 10
MaxPages == 3

\* The provider's pages of installations form a finite chain: the first is
\* what a request for page 0 returns, each names the next by its page number
\* and the last names none. A page holds at most PerPage installations.
PageSizes == {0, 1, PerPage}

Chains ==
    { c \in UNION {[1..n -> [no : 0..(MaxPages + 1), size : PageSizes]] : n \in 1..MaxPages} :
        /\ c[1].no = 0
        /\ \A k \in 2..Len(c) : c[k].no # 0
        /\ \A j, k \in 1..Len(c) : j # k => c[j].no # c[k].no }

RECURSIVE Base(_, _)
\* number of installations on the pages before page k of chain c
Base(c, k) == IF k <= 1 THEN 0 ELSE Base(c, k - 1) + c[k - 1].size

\* the installations (their ids) on page k of chain c
Items(c, k) == [j \in 1..c[k].size |-> Base(c, k) + j]

\* Apps.ListInstallations(ctx, opts): the page with number opts.Page and the
\* response's NextPage; a page number the provider does not have is empty.
ListInstallationsPage(c, pageNo) ==
    IF \E k \in 1..Len(c) : c[k].no = pageNo
    THEN LET k == CHOOSE k \in 1..Len(c) : c[k].no = pageNo IN
         [is |-> Items(c, k), NextPage |-> IF k < Len(c) THEN c[k + 1].no ELSE 0]
    ELSE [is |-> <<>>, NextPage |-> 0]

\* if resp.NextPage == 0 { break }
LastPage(resp) == resp.NextPage = 0

\* A bug NextOptsPage could have: the page number is counted up instead of
\* taken from the response.
NextOptsPageMut(page, resp) == page + 1

\* opts.Page = resp.NextPage
NextOptsPage(page, resp) == resp.NextPage

\* One iteration of the for loop: a request, which may fail, the append, and
\* the break or the step to the next page.
listInstallations ==
    /\ lpc = "request"
    /\ requests' = Append(requests, [Page |-> optsPage, PerPage |-> PerPage])
    /\ \E ok \in BOOLEAN :
         IF ~ok
         THEN /\ lret' = [installations |-> <<>>, err |-> "failed to list installations"]
              /\ lpc' = "done"
              /\ UNCHANGED <<acc, optsPage>>
         ELSE LET resp == ListInstallationsPage(chain, optsPage) IN
              /\ acc' = acc \o resp.is
              /\ IF LastPage(resp)
                 THEN /\ lpc' = "done"
                      /\ lret' = [installations |-> acc', err |-> Nil]
                      /\ UNCHANGED optsPage
                 ELSE /\ optsPage' = NextOptsPage(optsPage, resp)
                      /\ UNCHANGED <<lpc, lret>>
    /\ UNCHANGED chain
    /\ UNCHANGED <<ghVars, runVars, notifyVars, pluginVars>>

InitList ==
    /\ chain \in Chains
    /\ lpc = "request"
    /\ optsPage = 0
    /\ acc = <<>>
    /\ requests = <<>>
    /\ lret = [installations |-> <<>>, err |-> Nil]

IdleList ==
    /\ chain = <<>>
    /\ lpc = "idle"
    /\ optsPage = 0
    /\ acc = <<>>
    /\ requests = <<>>
    /\ lret = [installations |-> <<>>, err |-> Nil]

NextList == listInstallations

\* ------------------------------------------------------------------------
\* cmd/server: main and myShoes.Run, one per process instance, all against
\* the same datastore
\* ------------------------------------------------------------------------

NumInstances == 2

Procs == 1..NumInstances

Tasks == {"web.Serve", "starter.Loop", "runner.Loop"}

\* datastore.IsLocked / datastore.IsNotLocked, as IsLocked reports them
DsIsLocked == <<"i", "s", " ", "l", "o", "c", "k", "e", "d">>
DsIsNotLocked == <<"i", "s", " ", "n", "o", "t", " ", "l", "o", "c", "k", "e", "d">>

\* ds.IsLocked: whether any instance holds the advisory lock, or an error
IsLockedAnswers(holders) ==
    { [res |-> IF holders = {} THEN DsIsNotLocked ELSE DsIsLocked, err |-> Nil],
      [res |-> <<>>, err |-> "datastore error"] }

\* ds.GetLock: the advisory lock is granted only while nobody holds it;
\* otherwise, or when the datastore fails, an error
GetLockAnswers(holders) ==
    IF holders = {} THEN {Nil, "datastore error"} ELSE {"lock is held"}

\* The process ends: its datastore session ends with it, and so does its hold
\* on the advisory lock.
ReleasedBy(p) == lock \ {p}

\* main: log.Fatalln on an error from Run, a plain return otherwise
MainExitCode(err) == IF err # Nil THEN 1 ELSE 0

\* A bug AfterIsLocked could have: the answer is not looked at, and the
\* instance goes on to GetLock whether or not the lock is held.
AfterIsLockedMut(ans) == IF ans.err # Nil THEN "return" ELSE "getLock"

\* Run lines 85-99: what follows the answer of IsLocked
AfterIsLocked(ans) ==
    IF ans.err # Nil THEN "return"
    ELSE IF EqualFold(ans.res, DsIsNotLocked) THEN "getLock"
    ELSE "sleep"

\* A bug AfterGetLock could have: the error of GetLock is dropped.
AfterGetLockMut(err) == "break"

\* Run lines 91-96: what follows the answer of GetLock
AfterGetLock(err) == IF err # Nil THEN "return" ELSE "break"

\* Run returns err and main ends the process.
ReturnFromRun(p, err) ==
    /\ pc' = [pc EXCEPT ![p] = "exited"]
    /\ runRet' = [runRet EXCEPT ![p] = err]
    /\ exitCode' = [exitCode EXCEPT ![p] = MainExitCode(err)]
    /\ lock' = ReleasedBy(p)

RunIsLocked(p) ==
    /\ pc[p] = "isLocked"
    /\ \E ans \in IsLockedAnswers(lock) :
         /\ isLockedRes' = [isLockedRes EXCEPT ![p] = ans]
         /\ IF AfterIsLocked(ans) = "return"
            THEN ReturnFromRun(p, "failed to check lock")
            ELSE /\ pc' = [pc EXCEPT ![p] = AfterIsLocked(ans)]
                 /\ UNCHANGED <<lock, runRet, exitCode>>
    /\ UNCHANGED <<task, egErr, ctxCancelled, retried>>
    /\ UNCHANGED <<ghVars, listVars, notifyVars, pluginVars>>

\* time.Sleep(time.Second), then the next iteration
RunSleep(p) ==
    /\ pc[p] = "sleep"
    /\ pc' = [pc EXCEPT ![p] = "isLocked"]
    /\ retried' = [retried EXCEPT ![p] = TRUE]
    /\ UNCHANGED <<lock, isLockedRes, task, egErr, ctxCancelled, runRet, exitCode>>
    /\ UNCHANGED <<ghVars, listVars, notifyVars, pluginVars>>

RunGetLock(p) ==
    /\ pc[p] = "getLock"
    /\ \E err \in GetLockAnswers(lock) :
         IF AfterGetLock(err) = "return"
         THEN ReturnFromRun(p, "failed to get lock")
         ELSE /\ pc' = [pc EXCEPT ![p] = "startTasks"]
              /\ lock' = IF err = Nil THEN {p} ELSE lock
              /\ UNCHANGED <<runRet, exitCode>>
    /\ UNCHANGED <<isLockedRes, task, egErr, ctxCancelled, retried>>
    /\ UNCHANGED <<ghVars, listVars, notifyVars, pluginVars>>

\* the three eg.Go calls
RunStartTasks(p) ==
    /\ pc[p] = "startTasks"
    /\ task' = [task EXCEPT ![p] = [t \in Tasks |-> "running"]]
    /\ pc' = [pc EXCEPT ![p] = "wait"]
    /\ UNCHANGED <<lock, isLockedRes, egErr, ctxCancelled, runRet, exitCode, retried>>
    /\ UNCHANGED <<ghVars, listVars, notifyVars, pluginVars>>

\* A task's function returns an error: the errgroup keeps the first error
\* and cancels the context it derived.
TaskError(p, t) ==
    /\ task[p][t] = "running"
    /\ task' = [task EXCEPT ![p][t] = "returned error"]
    /\ egErr' = [egErr EXCEPT ![p] = IF egErr[p] = Nil THEN t ELSE egErr[p]]
    /\ ctxCancelled' = [ctxCancelled EXCEPT ![p] = TRUE]
    /\ UNCHANGED <<pc, lock, isLockedRes, runRet, exitCode, retried>>
    /\ UNCHANGED <<ghVars, listVars, notifyVars, pluginVars>>

\* A task observes the cancelled context, drains and returns.
TaskCancelled(p, t) ==
    /\ task[p][t] = "running"
    /\ ctxCancelled[p]
    /\ task' = [task EXCEPT ![p][t] = "returned nil"]
    /\ UNCHANGED <<pc, lock, isLockedRes, egErr, ctxCancelled, runRet, exitCode, retried>>
    /\ UNCHANGED <<ghVars, listVars, notifyVars, pluginVars>>

\* A bug WaitResult could have: the error of eg.Wait is swallowed.
WaitResultMut(first) == Nil

\* eg.Wait() of Run: the error Run returns once every task has returned
WaitResult(first) == IF first # Nil THEN "failed to wait errgroup" ELSE Nil

RunWait(p) ==
    /\ pc[p] = "wait"
    /\ \A t \in Tasks : task[p][t] # "running"
    /\ ctxCancelled' = [ctxCancelled EXCEPT ![p] = TRUE]
    /\ ReturnFromRun(p, WaitResult(egErr[p]))
    /\ UNCHANGED <<isLockedRes, task, egErr, retried>>
    /\ UNCHANGED <<ghVars, listVars, notifyVars, pluginVars>>

NoAnswer == [res |-> <<>>, err |-> Nil]

RunFields(start) ==
    /\ pc = [p \in Procs |-> start]
    /\ lock = {}
    /\ isLockedRes = [p \in Procs |-> NoAnswer]
    /\ task = [p \in Procs |-> [t \in Tasks |-> "not started"]]
    /\ egErr = [p \in Procs |-> Nil]
    /\ ctxCancelled = [p \in Procs |-> FALSE]
    /\ runRet = [p \in Procs |-> "running"]
    /\ exitCode = [p \in Procs |-> -1]
    /\ retried = [p \in Procs |-> FALSE]

\* every instance has loaded its configuration and enters Run
InitRun == RunFields("isLocked")

IdleRun == RunFields("idle")

NextRun ==
    \E p \in Procs :
        \/ RunIsLocked(p)
        \/ RunSleep(p)
        \/ RunGetLock(p)
        \/ RunStartTasks(p)
        \/ \E t \in Tasks : TaskError(p, t)
        \/ \E t \in Tasks : TaskCancelled(p, t)
        \/ RunWait(p)

\* ------------------------------------------------------------------------
\* cmd/server: the enqueue-notify channel that newShoes hands to the
\* datastore (which posts) and to the starter (which drains)
\* ------------------------------------------------------------------------

MaxPosts == 5

\* A bug NewNotifyEnqueueCh could have: a buffer of two.
NewNotifyEnqueueChMut == [cap |-> 2, len |-> 0]

\* notifyEnqueueCh := make(chan struct{}, 1)
NewNotifyEnqueueCh == [cap |-> 1, len |-> 0]

\* The datastore posts after EnqueueJob without blocking: a send when the
\* buffer has room, nothing otherwise.
EnqueueNotify ==
    /\ posts < MaxPosts
    /\ posts' = posts + 1
    /\ burst' = IF starter = "ticking" THEN burst + 1 ELSE burst
    /\ IF notifyEnqueueCh.len < notifyEnqueueCh.cap
       THEN /\ notifyEnqueueCh' = [notifyEnqueueCh EXCEPT !.len = @ + 1]
            /\ UNCHANGED dropped
       ELSE /\ dropped' = dropped + 1
            /\ UNCHANGED notifyEnqueueCh
    /\ UNCHANGED <<starter, wokenBy, notifyTicks>>
    /\ UNCHANGED <<ghVars, listVars, runVars, pluginVars>>

\* The starter, blocked on the channel and the ticker, receives from the channel.
StarterWakeNotify ==
    /\ starter = "waiting"
    /\ notifyEnqueueCh.len > 0
    /\ notifyEnqueueCh' = [notifyEnqueueCh EXCEPT !.len = @ - 1]
    /\ starter' = "ticking"
    /\ wokenBy' = "notify"
    /\ notifyTicks' = notifyTicks + 1
    /\ burst' = 0
    /\ UNCHANGED <<posts, dropped>>
    /\ UNCHANGED <<ghVars, listVars, runVars, pluginVars>>

\* The starter is woken by its ticker.
StarterWakeTicker ==
    /\ starter = "waiting"
    /\ starter' = "ticking"
    /\ wokenBy' = "ticker"
    /\ burst' = 0
    /\ UNCHANGED <<notifyEnqueueCh, posts, dropped, notifyTicks>>
    /\ UNCHANGED <<ghVars, listVars, runVars, pluginVars>>

\* The tick is over; the starter blocks again.
StarterYield ==
    /\ starter = "ticking"
    /\ starter' = "waiting"
    /\ UNCHANGED <<notifyEnqueueCh, wokenBy, burst, posts, dropped, notifyTicks>>
    /\ UNCHANGED <<ghVars, listVars, runVars, pluginVars>>

NotifyFields(phase) ==
    /\ notifyEnqueueCh = NewNotifyEnqueueCh
    /\ starter = phase
    /\ wokenBy = "none"
    /\ burst = 0
    /\ posts = 0
    /\ dropped = 0
    /\ notifyTicks = 0

InitNotify == NotifyFields("waiting")

IdleNotify == NotifyFields("idle")

NextNotify ==
    \/ EnqueueNotify
    \/ StarterWakeNotify
    \/ StarterWakeTicker
    \/ StarterYield

\* ------------------------------------------------------------------------
\* pkg/config: LoadPluginPath, run by init() of instance 1 before main
\* ------------------------------------------------------------------------

\* Values of MYSHOES_PLUGIN_PATH, by what os.Stat and url.Parse make of them:
\*   ""                                   /opt/shoes-lxd
\*   shoes-lxd                            https://example.com/shoes-lxd
\*   http://example.com/shoes-lxd         http://example.com/plugins/
\*   ftp://example.com/shoes-lxd          ://shoes-lxd (url.Parse fails)
PluginPathValues ==
    { [text |-> "", parses |-> TRUE, scheme |-> "", abs |-> FALSE, base |-> ""],
      [text |-> "/opt/shoes-lxd", parses |-> TRUE, scheme |-> "", abs |-> TRUE, base |-> "shoes-lxd"],
      [text |-> "shoes-lxd", parses |-> TRUE, scheme |-> "", abs |-> FALSE, base |-> "shoes-lxd"],
      [text |-> "https://example.com/shoes-lxd", parses |-> TRUE, scheme |-> "https", abs |-> FALSE, base |-> "shoes-lxd"],
      [text |-> "http://example.com/shoes-lxd", parses |-> TRUE, scheme |-> "http", abs |-> FALSE, base |-> "shoes-lxd"],
      [text |-> "http://example.com/plugins/", parses |-> TRUE, scheme |-> "http", abs |-> FALSE, base |-> ""],
      [text |-> "ftp://example.com/shoes-lxd", parses |-> TRUE, scheme |-> "ftp", abs |-> FALSE, base |-> "shoes-lxd"],
      [text |-> "://shoes-lxd", parses |-> FALSE, scheme |-> "", abs |-> FALSE, base |-> "shoes-lxd"] }

\* Values of Config.ShoesPluginOutputPath: the default, an absolute and a
\* relative directory
OutputPathValues ==
    { [text |-> ".", abs |-> FALSE], [text |-> "/var/lib/myshoes", abs |-> TRUE],
      [text |-> "plugins", abs |-> FALSE] }

\* What a file starts with
Contents == {"ELF", "shell script", "html", "gzip", "empty"}

\* http.DetectContentType
DetectContentType(content) ==
    CASE content = "ELF" -> "application/octet-stream"
      [] content = "shell script" -> "text/plain; charset=utf-8"
      [] content = "html" -> "text/html; charset=utf-8"
      [] content = "gzip" -> "application/x-gzip"
      [] OTHER -> "text/plain; charset=utf-8"

NoFile == [exists |-> FALSE, readable |-> FALSE, content |-> "empty", mode |-> "none"]

\* What the file system holds at the configured path
LocalFiles ==
    {NoFile} \cup [exists : {TRUE}, readable : BOOLEAN, content : Contents, mode : {"0644"}]

\* What http.Get answers: an error, or a status and a body
HttpAnswers ==
    { [err |-> TRUE, status |-> 0, body |-> "empty"] }
    \cup [err : {FALSE}, status : {200, 404}, body : Contents]

NoPath == [dir |-> "", base |-> "", abs |-> FALSE]

NoDownload == [ran |-> FALSE, path |-> NoPath, status |-> 0, copied |-> FALSE]

Panic(msg) ==
    /\ bootpc' = "panic"
    /\ panicMsg' = msg

\* LoadPluginPath lines 219-222: the setting must not be empty
LoadPluginPath ==
    /\ bootpc = "LoadPluginPath"
    /\ IF envPluginPath.text = ""
       THEN Panic("MYSHOES_PLUGIN_PATH must be set")
       ELSE bootpc' = "fetch" /\ UNCHANGED panicMsg
    /\ UNCHANGED <<envPluginPath, outputPath, localFile, fp, fileAt, downloaded, checked, pluginPath>>
    /\ UNCHANGED <<ghVars, listVars, runVars, notifyVars>>

\* fetch: where to go for the value p, given whether os.Stat(p) succeeded
fetchRoute(p, statOK) ==
    IF statOK THEN "file"
    ELSE IF ~p.parses THEN "failed to parse input url"
    ELSE IF p.scheme \in {"http", "https"} THEN "fetchHTTP"
    ELSE "unsupported fetch schema"

fetch ==
    /\ bootpc = "fetch"
    /\ LET route == fetchRoute(envPluginPath, localFile.exists) IN
       IF route = "file"
       THEN /\ fp' = [dir |-> "", base |-> envPluginPath.text, abs |-> envPluginPath.abs]
            /\ fileAt' = localFile
            /\ bootpc' = "checkBinary"
            /\ UNCHANGED panicMsg
       ELSE IF route = "fetchHTTP"
       THEN /\ bootpc' = "fetchHTTP"
            /\ UNCHANGED <<fp, fileAt, panicMsg>>
       ELSE /\ Panic("failed to fetch plugin binary")
            /\ UNCHANGED <<fp, fileAt>>
    /\ UNCHANGED <<envPluginPath, outputPath, localFile, downloaded, checked, pluginPath>>
    /\ UNCHANGED <<ghVars, listVars, runVars, notifyVars>>

\* fetchHTTP lines 289-301: the directory to save to, and the file path
SaveDir(out) == IF out.text = "." THEN [text |-> "$PWD", abs |-> TRUE] ELSE out

SavePath(out, u) == [dir |-> SaveDir(out).text, base |-> u.base, abs |-> SaveDir(out).abs]

\* fetchHTTP line 314: the response is taken only with status 200
StatusOK(status) == status = 200

\* fetchHTTP: Getwd, Create, Get and Copy may each fail. os.Create fails on
\* a path that names the directory itself (no file name in the URL).
fetchHTTP ==
    /\ bootpc = "fetchHTTP"
    /\ \E getwdOK \in BOOLEAN, createOK \in BOOLEAN, get \in HttpAnswers, copyOK \in BOOLEAN :
         LET path == SavePath(outputPath, envPluginPath)
             created == (outputPath.text = "." => getwdOK) /\ createOK /\ path.base # ""
             fetched == created /\ ~get.err /\ StatusOK(get.status)
         IN
         /\ downloaded' = [ran |-> TRUE, path |-> path,
                           status |-> IF created /\ ~get.err THEN get.status ELSE 0,
                           copied |-> fetched /\ copyOK]
         /\ fileAt' = IF fetched /\ copyOK
                      THEN [exists |-> TRUE, readable |-> TRUE, content |-> get.body, mode |-> "0644"]
                      ELSE IF created
                      THEN [exists |-> TRUE, readable |-> TRUE, content |-> "empty", mode |-> "0644"]
                      ELSE fileAt
         /\ IF fetched /\ copyOK
            THEN /\ fp' = path
                 /\ bootpc' = "checkBinary"
                 /\ UNCHANGED panicMsg
            ELSE /\ Panic("failed to fetch plugin binary")
                 /\ UNCHANGED fp
    /\ UNCHANGED <<envPluginPath, outputPath, localFile, checked, pluginPath>>
    /\ UNCHANGED <<ghVars, listVars, runVars, notifyVars>>

\* A bug ValidFileType could have: the detected type is not compared.
ValidFileTypeMut(content) == TRUE

\* checkBinary lines 242-245: only application/octet-stream passes
ValidFileType(content) == DetectContentType(content) = "application/octet-stream"

\* checkBinary lines 252-261: the absolute path of p
AbsPath(p) == IF p.abs THEN p ELSE [dir |-> "$PWD/" \o p.dir, base |-> p.base, abs |-> TRUE]

\* checkBinary: ReadFile, Chmod and Abs may each fail
checkBinary ==
    /\ bootpc = "checkBinary"
    /\ checked' = fp
    /\ \E chmodOK \in BOOLEAN, absOK \in BOOLEAN :
         IF fileAt.readable /\ ValidFileType(fileAt.content) /\ chmodOK /\ (fp.abs \/ absOK)
         THEN /\ fileAt' = [fileAt EXCEPT !.mode = "0777"]
              /\ pluginPath' = AbsPath(fp)
              /\ bootpc' = "loaded"
              /\ UNCHANGED panicMsg
         ELSE /\ fileAt' = IF fileAt.readable /\ ValidFileType(fileAt.content) /\ chmodOK
                           THEN [fileAt EXCEPT !.mode = "0777"]
                           ELSE fileAt
              /\ Panic("failed to check plugin binary")
              /\ UNCHANGED pluginPath
    /\ UNCHANGED <<envPluginPath, outputPath, localFile, fp, downloaded>>
    /\ UNCHANGED <<ghVars, listVars, runVars, notifyVars>>

\* init() has returned: main runs newShoes, which may fail, and enters Run.
MainStart(p) ==
    /\ bootpc = "loaded"
    /\ pc[p] = "boot"
    /\ \E newShoesOK \in BOOLEAN :
         IF newShoesOK
         THEN /\ pc' = [pc EXCEPT ![p] = "isLocked"]
              /\ UNCHANGED <<lock, runRet, exitCode>>
         ELSE /\ pc' = [pc EXCEPT ![p] = "exited"]
              /\ exitCode' = [exitCode EXCEPT ![p] = MainExitCode("failed to mysql.New")]
              /\ UNCHANGED <<lock, runRet>>
    /\ UNCHANGED <<isLockedRes, task, egErr, ctxCancelled, retried>>
    /\ UNCHANGED <<ghVars, listVars, notifyVars, pluginVars>>

PluginFields ==
    /\ fp = NoPath
    /\ fileAt = NoFile
    /\ downloaded = NoDownload
    /\ checked = NoPath
    /\ pluginPath = NoPath
    /\ panicMsg = Nil

InitPlugin ==
    /\ bootpc = "LoadPluginPath"
    /\ envPluginPath \in PluginPathValues
    /\ outputPath \in OutputPathValues
    /\ localFile \in LocalFiles
    /\ envPluginPath.text = "" => localFile = NoFile
    /\ PluginFields

IdlePlugin ==
    /\ bootpc = "idle"
    /\ envPluginPath = [text |-> "", parses |-> TRUE, scheme |-> "", abs |-> FALSE, base |-> ""]
    /\ outputPath = [text |-> ".", abs |-> FALSE]
    /\ localFile = NoFile
    /\ PluginFields

NextPlugin ==
    \/ LoadPluginPath
    \/ fetch
    \/ fetchHTTP
    \/ checkBinary
    \/ MainStart(1)
    \/ RunIsLocked(1)
    \/ RunGetLock(1)
    \/ RunStartTasks(1)

\* ------------------------------------------------------------------------
\* Specifications
\* ------------------------------------------------------------------------

InitSpecGh == InitGh /\ IdleList /\ IdleRun /\ IdleNotify /\ IdlePlugin

\* Installation discovery and registration tokens, for every scope and
\* every list of installations within the bounds
SpecGh == InitSpecGh /\ [][NextGh]_vars

InitSpecList == IdleGh /\ InitList /\ IdleRun /\ IdleNotify /\ IdlePlugin

\* listInstallations against every chain of pages within the bounds; the
\* loop keeps running until it returns
SpecList == InitSpecList /\ [][NextList]_vars /\ WF_vars(NextList)

Init == IdleGh /\ IdleList /\ InitRun /\ IdleNotify /\ IdlePlugin

\* NumInstances instances of the server against one datastore
Spec == Init /\ [][NextRun]_vars

InitSpecNotify == IdleGh /\ IdleList /\ IdleRun /\ InitNotify /\ IdlePlugin

\* The enqueue-notify channel between the webhook intake and the starter
SpecNotify == InitSpecNotify /\ [][NextNotify]_vars

InitSpecPlugin == IdleGh /\ IdleList /\ RunFields("boot") /\ IdleNotify /\ InitPlugin

\* Start-up of one instance from plugin loading to its tasks
SpecPlugin == InitSpecPlugin /\ [][NextPlugin]_vars

\* ------------------------------------------------------------------------
\* Properties of Run (specification Spec)
\* ------------------------------------------------------------------------

PastLockLoop(p) == pc[p] \in {"startTasks", "wait"}

TasksRunning(p) == \E t \in Tasks : task[p][t] = "running"

\* C1: under every interleaving of the instances' IsLocked and GetLock
\* steps, an instance is past its lock-acquisition loop or has a task
\* running only while it alone holds the advisory lock (its own GetLock
\* succeeded), so at most one instance runs the starter loop, the web server
\* and the runner manager at a time.
C1_SingleOwner ==
    /\ \A p \in Procs : (PastLockLoop(p) \/ TasksRunning(p)) => lock = {p}
    /\ \A p, q \in Procs :
         p # q => ~(task[p]["starter.Loop"] = "running" /\ task[q]["starter.Loop"] = "running")
    /\ \A p, q \in Procs : p # q => ~(PastLockLoop(p) /\ PastLockLoop(q))

\* The race the claim is about: one instance runs its starter loop while
\* another, which saw the lock free before, is about to call GetLock.
C1_Witness ==
    \E p, q \in Procs :
        /\ p # q
        /\ task[p]["starter.Loop"] = "running"
        /\ pc[q] = "getLock"

Alive(p) == exitCode[p] = -1 /\ runRet[p] = "running" /\ pc[p] # "exited"

NoTaskStarted(p) == \A t \in Tasks : task[p][t] = "not started"

\* C6: an instance whose IsLocked call reports the lock as held sleeps and
\* then calls IsLocked again, with no task started, Run not returned and the
\* process alive; when IsLocked reports the lock free it calls GetLock, and
\* once GetLock has given it the lock it starts all three tasks.
C6_RetryUntilFree ==
    [][\A p \in Procs :
         /\ (pc[p] = "isLocked" /\ pc'[p] # "isLocked" /\ isLockedRes'[p].err = Nil
               /\ isLockedRes'[p].res = DsIsLocked)
              => (pc'[p] = "sleep" /\ NoTaskStarted(p)' /\ Alive(p)')
         /\ (pc[p] = "sleep" /\ pc'[p] # "sleep")
              => (pc'[p] = "isLocked" /\ NoTaskStarted(p)' /\ Alive(p)')
         /\ (pc[p] = "isLocked" /\ pc'[p] # "isLocked" /\ isLockedRes'[p].err = Nil
               /\ isLockedRes'[p].res = DsIsNotLocked)
              => (pc'[p] = "getLock" /\ NoTaskStarted(p)' /\ Alive(p)')
         /\ (pc[p] = "getLock" /\ pc'[p] # "getLock" /\ p \in lock')
              => pc'[p] = "startTasks"
         /\ (pc[p] = "startTasks" /\ pc'[p] # "startTasks")
              => (\A t \in Tasks : task'[p][t] = "running")
         /\ (pc[p] \in {"isLocked", "sleep"} /\ ~Alive(p)')
              => isLockedRes'[p].err # Nil
      ]_vars

\* An instance that found the lock held, slept and retried has its three
\* tasks running.
C6_Witness ==
    \E p \in Procs :
        /\ retried[p]
        /\ isLockedRes[p].res = DsIsNotLocked
        /\ \A t \in Tasks : task[p][t] = "running"

C5_Coalescing ==
    /\ [](/\ notifyEnqueueCh.len <= 1
          /\ burst >= 1 => notifyEnqueueCh.len = 1
          /\ posts < MaxPosts => ENABLED EnqueueNotify)
    /\ [][/\ posts' = posts + 1 =>
               IF notifyEnqueueCh.len = 0
               THEN notifyEnqueueCh'.len = 1 /\ dropped' = dropped
               ELSE notifyEnqueueCh'.len = notifyEnqueueCh.len /\ dropped' = dropped + 1
          /\ notifyTicks' = notifyTicks + 1 => notifyEnqueueCh'.len = 0
         ]_vars

\* Three posts arrived during one tick: one is pending, two were dropped.
C5_Witness ==
    /\ starter = "ticking"
    /\ burst = 3
    /\ dropped >= 2
    /\ notifyEnqueueCh.len = 1


\* ------------------------------------------------------------------------
\* Properties of installation discovery and registration tokens
\* (specification SpecGh)
\* ------------------------------------------------------------------------

Returned == op = "IsInstalledGitHubApp" /\ ghpc = "done"

\* Installation k qualifies for the input scope: not suspended, its login a
\* case-sensitive prefix of the scope, and its selection "all", or
\* "selected" with a repository check that succeeded.
Qualifies(k) ==
    /\ installations[k].SuspendedAt = Nil
    /\ Len(installations[k].Account.Login) <= Len(inputScope)
    /\ \A c \in 1..Len(installations[k].Account.Login) :
         inputScope[c] = installations[k].Account.Login[c]
    /\ \/ installations[k].RepositorySelection = "all"
       \/ /\ installations[k].RepositorySelection = "selected"
          /\ repoLog[k] = "ok"

\* Installation k was passed over: it did not qualify, and if it was a
\* "selected" one up for the repository check, the check was made and failed.
PassedOver(k) == ~Qualifies(k) /\ repoLog[k] # "ok"

\* C2: once the installations are listed, IsInstalledGitHubApp returns the
\* id of the first installation in listing order that qualifies, every
\* installation before it having been passed over, and returns -1 with the
\* not-installed error exactly when no installation of the list qualifies.
C2_FirstQualifying ==
    (Returned /\ ret.err \notin {"failed to create client", "failed to get list of installations"})
    => /\ ret.err = Nil =>
            \E k \in 1..Len(installations) :
                /\ ret.id = installations[k].ID
                /\ Qualifies(k)
                /\ \A j \in 1..(k - 1) : PassedOver(j)
       /\ ret.err # Nil =>
            /\ ret.id = -1
            /\ ret.err = "is not installed configured GitHub Apps"
            /\ \A k \in 1..Len(installations) : PassedOver(k)
       /\ (ret.id = -1) <=> (\A k \in 1..Len(installations) : ~Qualifies(k))

\* The second installation was returned after the repository check of the
\* first, a "selected" one, failed.
C2_Witness ==
    /\ Returned
    /\ Len(installations) >= 2
    /\ ret.err = Nil
    /\ ret.id = installations[2].ID
    /\ repoLog[1] = "fail"

\* C3: the repository list of a suspended installation is never asked for,
\* and the id of a suspended installation is never returned.
C3_SuspendedSkipped ==
    \A k \in 1..Len(installations) :
        installations[k].SuspendedAt # Nil
            => /\ repoLog[k] = "not asked"
               /\ lr.inst # k
               /\ Returned => ret.id # installations[k].ID

\* The only installation whose login matches is suspended, with selection
\* "all", and the result is not-installed.
C3_Witness ==
    /\ Returned
    /\ Len(installations) >= 1
    /\ installations[1].SuspendedAt # Nil
    /\ installations[1].RepositorySelection = "all"
    /\ installations[1].Account.Login = inputScope
    /\ ret.id = -1
    /\ ret.err = "is not installed configured GitHub Apps"

NoSlash(s) == \A c \in 1..Len(s) : s[c] # "/"

OneSlash(s) == \E c \in 1..Len(s) : s[c] = "/" /\ \A d \in 1..Len(s) : s[d] = "/" => d = c

\* The text of s before its first '/', all of s when it has none.
OwnerPart(s) ==
    IF \E c \in 1..Len(s) : s[c] = "/"
    THEN SubSeq(s, 1, (CHOOSE c \in 1..Len(s) :
                          s[c] = "/" /\ \A d \in 1..(c - 1) : s[d] # "/") - 1)
    ELSE s

C4_SelectedCheck ==
    lr.inst # 0
    => /\ lr.resp.err => lr.err # Nil
       /\ (lr.resp.Repositories = <<>> \/ lr.resp.TotalCount <= 0) => lr.err # Nil
       /\ NoSlash(inputScope) =>
            ((lr.err = Nil) <=> (~lr.resp.err /\ lr.resp.Repositories # <<>>))
       /\ OneSlash(inputScope) =>
            ((lr.err = Nil) <=>
                /\ ~lr.resp.err
                /\ \E k \in 1..Len(lr.resp.Repositories) :
                     /\ Len(lr.resp.Repositories[k]) = Len(inputScope)
                     /\ \A c \in 1..Len(inputScope) :
                          LowerChar(lr.resp.Repositories[k][c]) = LowerChar(inputScope[c]))
       /\ (lr.err = Nil) <=> (repoLog[lr.inst] = "ok")

\* A Repository scope passed the check through a full name that differs
\* from it in letter case only.
C4_Witness ==
    /\ lr.inst # 0
    /\ lr.err = Nil
    /\ OneSlash(inputScope)
    /\ \A k \in 1..Len(lr.resp.Repositories) : lr.resp.Repositories[k] # inputScope

\* C9: GenerateRunnerRegistrationToken makes at most one endpoint call: for
\* an Organization scope the organization endpoint with the whole scope, for
\* a Repository scope the repository endpoint with the text before and the
\* text after the '/', for any other scope none; it returns a token exactly
\* when the call it made succeeded, and an error and no token otherwise.
C9_EndpointByScope ==
    (op = "GenerateRunnerRegistrationToken" /\ ghpc = "done")
    => /\ Len(calls) <= 1
       /\ tokRet.err # "failed to create NewClientInstallation" =>
            /\ NoSlash(inputScope) =>
                 calls = <<[endpoint |-> "CreateOrganizationRegistrationToken",
                            args |-> <<inputScope>>]>>
            /\ OneSlash(inputScope) =>
                 /\ Len(calls) = 1
                 /\ calls[1].endpoint = "CreateRegistrationToken"
                 /\ Len(calls[1].args) = 2
                 /\ NoSlash(calls[1].args[1])
                 /\ calls[1].args[1] \o <<"/">> \o calls[1].args[2] = inputScope
            /\ (~NoSlash(inputScope) /\ ~OneSlash(inputScope)) =>
                 (calls = <<>> /\ tokRet.err = "failed to detect scope")
       /\ tokRet.err = "failed to create NewClientInstallation" => calls = <<>>
       /\ tokRet.err = "failed to generate registration token" => Len(calls) = 1
       /\ tokRet.err = Nil => (Len(calls) = 1 /\ tokRet.token # "")
       /\ tokRet.err # Nil => tokRet.token = ""

\* A Repository scope got its token from the repository endpoint.
C9_Witness ==
    /\ op = "GenerateRunnerRegistrationToken"
    /\ ghpc = "done"
    /\ tokRet.err = Nil
    /\ calls # <<>>
    /\ calls[1].endpoint = "CreateRegistrationToken"
    /\ calls[1].args = << <<"o", "c">>, <<"w">> >>

\* ------------------------------------------------------------------------
\* Properties of listInstallations (specification SpecList)
\* ------------------------------------------------------------------------

\* The ids of the installations on all pages of chain c, in page order
AllInstallations(c) == [j \in 1..Base(c, Len(c) + 1) |-> j]

\* C10: listInstallations asks for pages of 10, first page 0 and then the
\* page each response names, until a response names none; it then returns
\* every installation of every page once, in page order; a failed request
\* makes it return an error and no installation; and it always returns.
C10_AllPages ==
    /\ [](/\ \A k \in 1..Len(requests) :
               /\ k <= Len(chain)
               /\ requests[k] = [Page |-> chain[k].no, PerPage |-> 10]
          /\ lpc = "done" =>
               IF lret.err = Nil
               THEN /\ lret.installations = AllInstallations(chain)
                    /\ Len(requests) = Len(chain)
               ELSE lret.installations = <<>>)
    /\ <>(lpc = "done")

\* Three pages, two of them full, were fetched and returned.
C10_Witness ==
    /\ lpc = "done"
    /\ lret.err = Nil
    /\ Len(requests) = 3
    /\ Len(lret.installations) > 2 * PerPage

\* ------------------------------------------------------------------------
\* Properties of plugin loading at start-up (specification SpecPlugin)
\* ------------------------------------------------------------------------

====
